---- MODULE Spec2Model ----
(***************************************************************************)
(* Freescale LINFlex UART model (hw/char/fsl-linflex.c).                   *)
(*                                                                         *)
(* A register value is the set of the positions of its 1 bits, so that a   *)
(* uint32_t is a subset of 0..31 and the 64-bit value the bus hands to the *)
(* write handler a subset of 0..63:  a & b is a \cap b,  a | b is          *)
(* a \cup b,  a & ~b is a \ b,  (uint32_t)v is v \cap 0..31.               *)
(***************************************************************************)
EXTENDS Integers, Sequences, FiniteSets, TLC

VARIABLES
    regs,      \* s->regs[], the register file
    irq,       \* level last driven on s->irq by qemu_set_irq
    phase,     \* position of the device in its life cycle / reset sequence
    lastOp,    \* the entry point that ran last, its inputs and its outputs
    txlog,     \* every byte handed to qemu_chr_fe_write_all, in order
    bdrlLog,   \* every value the guest wrote to BDRL, in order
    rxHist     \* the last byte delivered and what was acknowledged since

vars == <<regs, irq, phase, lastOp, txlog, bdrlLog, rxHist>>

----------------------------------------------------------------------------
(* Bounds of the model.                                                    *)

\* at most this many bytes are transmitted in one behaviour
MaxTx == 2

----------------------------------------------------------------------------
(* Bit vectors.                                                            *)

\* the set of 1 bits of the number n (n < 2^31)
Bits(n) == {i \in 0..30 : (n \div (2^i)) % 2 = 1}

\* (uint32_t)v
uint32(v) == v \cap (0..31)

\* (unsigned char)v, and the uint8_t a chardev backend delivers
uint8(v) == v \cap (0..7)

----------------------------------------------------------------------------
(* Declarations of hw/char/fsl-linflex.h: the LinflexRegs enumeration      *)
(* (index = byte offset / 4) and the bit names of the registers.           *)

LINFLEX_LINCR1 == 0
LINFLEX_LINIER == 1
LINFLEX_LINSR == 2
LINFLEX_LINESR == 3
LINFLEX_UARTCR == 4
LINFLEX_UARTSR == 5
LINFLEX_LINTCSR == 6
LINFLEX_LINOCR == 7
LINFLEX_LINTOCR == 8
LINFLEX_LINFBRR == 9
LINFLEX_LINIBRR == 10
LINFLEX_LINCFR == 11
LINFLEX_LINCR2 == 12
LINFLEX_BIDR == 13
LINFLEX_BDRL == 14
LINFLEX_BDRM == 15
LINFLEX_GCR == 16
LINFLEX_UARTPTO == 17
LINFLEX_UARTCTO == 18
LINFLEX_DMATXE == 19
LINFLEX_DMARXE == 20
LINFLEX_REGS_MAX == 21

LINCR1_INIT == Bits(1)          \* 0x0001
LINSR_LINS_INIT == Bits(4096)   \* 0x1000
LINIER_DTIE == Bits(1)          \* 0x0001, transmit-complete enable
LINIER_DRIE == Bits(4)          \* 0x0004, receive-complete enable
UARTCR_UART == Bits(1)          \* 0x0001
UARTSR_DTFTFF == Bits(2)        \* 0x0002, transmit buffer empty
UARTSR_DRFRFE == Bits(4)        \* 0x0004, receive buffer full
UARTSR_RMB == Bits(512)         \* 0x0200, receive message pending

\* literal masks and values of fsl-linflex.c
LINCR1_WRITABLE == Bits(122663)     \* 0x0001DF27
LINIER_WRITABLE == Bits(65535)      \* 0x0000FFFF
UARTCR_POSTINIT == Bits(7404592)    \* 0x0070FC30
UARTSR_WRITABLE == Bits(65535)      \* 0xFFFF
LINCR1_BIT7 == Bits(128)            \* 0x00000080
BDRM_BYTE == Bits(255)              \* 0xFF

RegIndex == 0..(LINFLEX_REGS_MAX - 1)

\* the registers whose write case only logs "not implemented"
UnimplementedWrite ==
    {LINFLEX_LINSR, LINFLEX_LINESR, LINFLEX_LINTCSR, LINFLEX_LINOCR,
     LINFLEX_LINTOCR, LINFLEX_LINFBRR, LINFLEX_LINIBRR, LINFLEX_LINCFR,
     LINFLEX_LINCR2, LINFLEX_BIDR, LINFLEX_BDRM, LINFLEX_GCR,
     LINFLEX_UARTPTO, LINFLEX_UARTCTO, LINFLEX_DMATXE, LINFLEX_DMARXE}

----------------------------------------------------------------------------
(* fsl_linflex_update_irq: the level driven on the interrupt line.         *)

\* variant: the transmit branch is left out
update_irq_rx_only(r) ==
    IF (r[LINFLEX_LINIER] \cap LINIER_DRIE) # {}
       /\ (r[LINFLEX_UARTSR] \cap UARTSR_DRFRFE) # {}
    THEN 1
    ELSE 0

\* variant: the transmit branch tests the receive flag
update_irq_copied_flag(r) ==
    IF (r[LINFLEX_LINIER] \cap LINIER_DRIE) # {}
       /\ (r[LINFLEX_UARTSR] \cap UARTSR_DRFRFE) # {}
    THEN 1
    ELSE IF (r[LINFLEX_LINIER] \cap LINIER_DTIE) # {}
            /\ (r[LINFLEX_UARTSR] \cap UARTSR_DRFRFE) # {}
         THEN 1
         ELSE 0

fsl_linflex_update_irq(r) ==
    IF (r[LINFLEX_LINIER] \cap LINIER_DRIE) # {}
       /\ (r[LINFLEX_UARTSR] \cap UARTSR_DRFRFE) # {}
    THEN 1
    ELSE IF (r[LINFLEX_LINIER] \cap LINIER_DTIE) # {}
            /\ (r[LINFLEX_UARTSR] \cap UARTSR_DTFTFF) # {}
         THEN 1
         ELSE 0

(* fsl_linflex_can_rx: the acceptance gate.                                *)

\* variant: only the receive-buffer-full flag closes the gate
can_rx_drfrfe_only(r) ==
    IF (r[LINFLEX_UARTSR] \cap UARTSR_DRFRFE) # {} THEN 0 ELSE 1

\* variant: only the release-message-buffer flag closes the gate
can_rx_rmb_only(r) ==
    IF (r[LINFLEX_UARTSR] \cap UARTSR_RMB) # {} THEN 0 ELSE 1

fsl_linflex_can_rx(r) ==
    IF (r[LINFLEX_UARTSR] \cap UARTSR_DRFRFE) # {}
       \/ (r[LINFLEX_UARTSR] \cap UARTSR_RMB) # {}
    THEN 0
    ELSE 1

\* what the chardev backend can see of the device when
\* qemu_chr_fe_accept_input reaches it: the gate and the line level
AcceptSeen(r, lvl) == [gate |-> fsl_linflex_can_rx(r), irq |-> lvl]

----------------------------------------------------------------------------
(* fsl_linflex_write, one operator per case of the switch.  Each yields    *)
(* the register file after the case, the accept_input notifications made   *)
(* (with what the backend sees at that moment) and the bytes written out.  *)

Effect(r, accepts, sent) == [regs |-> r, accepts |-> accepts, sent |-> sent]

\* variant: the INIT-state flag follows the INIT bit down as well
write_LINCR1_tracks_init(r, lvl, value) ==
    LET stored == value \cap LINCR1_WRITABLE
        r1 == [r EXCEPT ![LINFLEX_LINCR1] = stored]
        r2 == IF (stored \cap LINCR1_INIT) # {}
              THEN [r1 EXCEPT ![LINFLEX_LINSR] = @ \cup LINSR_LINS_INIT]
              ELSE [r1 EXCEPT ![LINFLEX_LINSR] = @ \ LINSR_LINS_INIT]
    IN  Effect(r2, <<>>, <<>>)

write_LINCR1(r, lvl, value) ==
    LET stored == value \cap LINCR1_WRITABLE
        r1 == [r EXCEPT ![LINFLEX_LINCR1] = stored]
        r2 == IF (stored \cap LINCR1_INIT) # {}
              THEN [r1 EXCEPT ![LINFLEX_LINSR] = @ \cup LINSR_LINS_INIT]
              ELSE r1
    IN  Effect(r2, <<>>, <<>>)

write_LINIER(r, lvl, value) ==
    Effect([r EXCEPT ![LINFLEX_LINIER] = value \cap LINIER_WRITABLE], <<>>, <<>>)

\* variant: initialization mode is taken from the INIT state flag of LINSR
write_UARTCR_gated_on_linsr(r, lvl, value) ==
    IF LINSR_LINS_INIT \subseteq r[LINFLEX_LINSR]
    THEN LET c1 == r[LINFLEX_UARTCR] \cup (value \cap UARTCR_UART)
             c2 == IF (c1 \cap UARTCR_UART) # {} THEN c1 \cup value ELSE c1
         IN  Effect([r EXCEPT ![LINFLEX_UARTCR] = c2], <<>>, <<>>)
    ELSE IF (r[LINFLEX_UARTCR] \cap UARTCR_UART) # {}
         THEN Effect([r EXCEPT ![LINFLEX_UARTCR] =
                          @ \cup (value \cap UARTCR_POSTINIT)],
                     <<>>, <<>>)
         ELSE Effect(r, <<>>, <<>>)

\* variant: in initialization mode the written value replaces the register
write_UARTCR_replace(r, lvl, value) ==
    IF (r[LINFLEX_LINCR1] \cap LINCR1_INIT) # {}
    THEN Effect([r EXCEPT ![LINFLEX_UARTCR] = value], <<>>, <<>>)
    ELSE IF (r[LINFLEX_UARTCR] \cap UARTCR_UART) # {}
         THEN Effect([r EXCEPT ![LINFLEX_UARTCR] =
                          @ \cup (value \cap UARTCR_POSTINIT)],
                     <<>>, <<>>)
         ELSE Effect(r, <<>>, <<>>)

write_UARTCR(r, lvl, value) ==
    IF (r[LINFLEX_LINCR1] \cap LINCR1_INIT) # {}
    THEN LET c1 == r[LINFLEX_UARTCR] \cup (value \cap UARTCR_UART)
             c2 == IF (c1 \cap UARTCR_UART) # {} THEN c1 \cup value ELSE c1
         IN  Effect([r EXCEPT ![LINFLEX_UARTCR] = c2], <<>>, <<>>)
    ELSE IF (r[LINFLEX_UARTCR] \cap UARTCR_UART) # {}
         THEN Effect([r EXCEPT ![LINFLEX_UARTCR] =
                          @ \cup (value \cap UARTCR_POSTINIT)],
                     <<>>, <<>>)
         ELSE Effect(r, <<>>, <<>>)

\* variant: the bits are cleared inside the if, with the notification
write_UARTSR_clear_in_if(r, lvl, value) ==
    LET v == value \cap UARTSR_WRITABLE
        mask == UARTSR_DRFRFE \cup UARTSR_RMB
    IN  IF (r[LINFLEX_UARTSR] \cap mask) # {} /\ (v \cap mask) = {}
        THEN Effect([r EXCEPT ![LINFLEX_UARTSR] = @ \ v],
                    <<AcceptSeen(r, lvl)>>, <<>>)
        ELSE Effect(r, <<>>, <<>>)

\* variant: the written value is stored as the new status
write_UARTSR_plain_store(r, lvl, value) ==
    LET v == value \cap UARTSR_WRITABLE
        mask == UARTSR_DRFRFE \cup UARTSR_RMB
        accepts == IF (r[LINFLEX_UARTSR] \cap mask) # {} /\ (v \cap mask) = {}
                   THEN <<AcceptSeen(r, lvl)>>
                   ELSE <<>>
    IN  Effect([r EXCEPT ![LINFLEX_UARTSR] = v], accepts, <<>>)

write_UARTSR(r, lvl, value) ==
    LET v == value \cap UARTSR_WRITABLE
        mask == UARTSR_DRFRFE \cup UARTSR_RMB
        accepts == IF (r[LINFLEX_UARTSR] \cap mask) # {} /\ (v \cap mask) = {}
                   THEN <<AcceptSeen(r, lvl)>>
                   ELSE <<>>
    IN  Effect([r EXCEPT ![LINFLEX_UARTSR] = @ \ v], accepts, <<>>)

\* variant: the byte goes out only in UART mode
write_BDRL_uart_only(r, lvl, value) ==
    LET r1 == [r EXCEPT ![LINFLEX_BDRL] = uint32(value)]
        ch == uint8(value)
    IN  Effect([r1 EXCEPT ![LINFLEX_UARTSR] = @ \cup UARTSR_DTFTFF],
               <<>>,
               IF (r[LINFLEX_UARTCR] \cap UARTCR_UART) # {} THEN <<ch>> ELSE <<>>)

write_BDRL(r, lvl, value) ==
    LET r1 == [r EXCEPT ![LINFLEX_BDRL] = uint32(value)]
        ch == uint8(value)
    IN  Effect([r1 EXCEPT ![LINFLEX_UARTSR] = @ \cup UARTSR_DTFTFF],
               <<>>, <<ch>>)

\* variant: the LIN status case stores the written value
write_unimplemented_stores_linsr(r, lvl, value) ==
    Effect([r EXCEPT ![LINFLEX_LINSR] = value], <<>>, <<>>)

\* variant: the written value lands in the receive data buffer
write_unimplemented_stores_bdrm(r, lvl, value) ==
    Effect([r EXCEPT ![LINFLEX_BDRM] = value], <<>>, <<>>)

write_unimplemented(r, lvl, value) == Effect(r, <<>>, <<>>)

write_default(r, lvl, value) == Effect(r, <<>>, <<>>)

\* the whole handler: decode, truncate, dispatch, then update the irq
fsl_linflex_write(r, lvl, offset, value64) ==
    LET reg == offset \div 4
        value == uint32(value64)
        e == CASE reg = LINFLEX_LINCR1 -> write_LINCR1(r, lvl, value)
               [] reg = LINFLEX_LINIER -> write_LINIER(r, lvl, value)
               [] reg = LINFLEX_UARTCR -> write_UARTCR(r, lvl, value)
               [] reg = LINFLEX_UARTSR -> write_UARTSR(r, lvl, value)
               [] reg = LINFLEX_BDRL -> write_BDRL(r, lvl, value)
               [] reg \in UnimplementedWrite -> write_unimplemented(r, lvl, value)
               [] OTHER -> write_default(r, lvl, value)
        path == CASE reg \in {LINFLEX_LINCR1} -> "LINCR1"
                  [] reg = LINFLEX_LINIER -> "LINIER"
                  [] reg = LINFLEX_UARTCR -> "UARTCR"
                  [] reg = LINFLEX_UARTSR -> "UARTSR"
                  [] reg = LINFLEX_BDRL -> "BDRL"
                  [] reg \in UnimplementedWrite -> "unimplemented"
                  [] OTHER -> "default"
    IN  [regs |-> e.regs, accepts |-> e.accepts, sent |-> e.sent,
         irq |-> fsl_linflex_update_irq(e.regs), path |-> path]

----------------------------------------------------------------------------
(* fsl_linflex_read: the register file after the read and the value read.  *)

\* variant: bit 7 is forced in the value returned, not in the register
read_LINCR1_no_latch(r) ==
    [regs |-> r, ret |-> r[LINFLEX_LINCR1] \cup LINCR1_BIT7, path |-> "LINCR1"]

read_LINCR1(r) ==
    LET v == r[LINFLEX_LINCR1] \cup LINCR1_BIT7
    IN  [regs |-> [r EXCEPT ![LINFLEX_LINCR1] = v], ret |-> v, path |-> "LINCR1"]

\* variant: reading the receive buffer releases it
read_BDRM_releases(r) ==
    [regs |-> [r EXCEPT ![LINFLEX_UARTSR] = @ \ (UARTSR_DRFRFE \cup UARTSR_RMB)],
     ret |-> r[LINFLEX_BDRM] \cap BDRM_BYTE, path |-> "BDRM"]

read_BDRM(r) ==
    [regs |-> r, ret |-> r[LINFLEX_BDRM] \cap BDRM_BYTE, path |-> "BDRM"]

read_stored(r, reg) == [regs |-> r, ret |-> r[reg], path |-> "stored"]

\* variant: the result is left as register 0 was read
read_default_stale(r) ==
    [regs |-> r, ret |-> r[LINFLEX_LINCR1], path |-> "default"]

read_default(r) == [regs |-> r, ret |-> {}, path |-> "default"]

fsl_linflex_read(r, offset) ==
    LET reg == offset \div 4
    IN  CASE reg = LINFLEX_LINCR1 -> read_LINCR1(r)
          [] reg = LINFLEX_BDRM -> read_BDRM(r)
          [] reg \in RegIndex \ {LINFLEX_LINCR1, LINFLEX_BDRM} -> read_stored(r, reg)
          [] OTHER -> read_default(r)

----------------------------------------------------------------------------
(* fsl_linflex_rx: a byte delivered by the chardev backend.                *)

\* variant: the delivery raises data-reception-complete but not the
\* release-message-buffer flag
rx_no_rmb(r, buf) ==
    LET r1 == [r EXCEPT ![LINFLEX_BDRM] = buf]
        r2 == [r1 EXCEPT ![LINFLEX_UARTSR] = @ \cup UARTSR_DRFRFE]
    IN  [regs |-> r2, irq |-> fsl_linflex_update_irq(r2)]

fsl_linflex_rx(r, buf) ==
    LET r1 == [r EXCEPT ![LINFLEX_BDRM] = buf]
        r2 == [r1 EXCEPT ![LINFLEX_UARTSR] = @ \cup UARTSR_DRFRFE]
        r3 == [r2 EXCEPT ![LINFLEX_UARTSR] = @ \cup UARTSR_RMB]
    IN  [regs |-> r3, irq |-> fsl_linflex_update_irq(r3)]

----------------------------------------------------------------------------
(* The three reset phases.                                                 *)

ResetValues ==
    [i \in RegIndex |->
        CASE i = LINFLEX_LINCR1 -> Bits(130)      \* 0x00000082
          [] i = LINFLEX_LINSR -> Bits(64)        \* 0x00000040
          [] i = LINFLEX_LINTCSR -> Bits(512)     \* 0x00000200
          [] i = LINFLEX_LINOCR -> Bits(65535)    \* 0x0000FFFF
          [] i = LINFLEX_LINTOCR -> Bits(3628)    \* 0x00000E2C
          [] i = LINFLEX_LINCR2 -> Bits(24576)    \* 0x00006000
          [] i = LINFLEX_UARTPTO -> Bits(4095)    \* 0x00000FFF
          [] OTHER -> {}]

\* memset to 0, then the power-on value of every register
fsl_linflex_reset_init(r) == [i \in RegIndex |-> ResetValues[i]]

\* variant: the hold phase leaves the status register as the enter phase did
reset_hold_nothing(r) == r

fsl_linflex_reset_hold(r) ==
    [r EXCEPT ![LINFLEX_UARTSR] = @ \cup UARTSR_DTFTFF]

\* variant: input is accepted before the irq is updated
reset_exit_accept_first(r, lvl) ==
    [irq |-> fsl_linflex_update_irq(r), accepts |-> <<AcceptSeen(r, lvl)>>]

\* update the irq, then accept input: the backend sees the new level
fsl_linflex_reset_exit(r, lvl) ==
    LET new == fsl_linflex_update_irq(r)
    IN  [irq |-> new, accepts |-> <<AcceptSeen(r, new)>>]

(* fsl_linflex_post_load: after the register file was restored.            *)

fsl_linflex_post_load(r) == fsl_linflex_update_irq(r)

----------------------------------------------------------------------------
(* Inputs: what the guest, the chardev backend and migration hand in.      *)

\* byte offsets into the 4096-byte window: every register, the first
\* offset past the enumeration and the last word of the window
InvalidOffsets == {84, 4092}
Offsets == {4 * i : i \in RegIndex} \cup InvalidOffsets

AllOnes33 == 0..32              \* 0x1FFFFFFFF, wider than a register
CharA == Bits(65)               \* 'A'
WordA == AllOnes33 \ Bits(190)  \* 0x1FFFFFF41, low byte 'A'
WordB == AllOnes33 \ Bits(189)  \* 0x1FFFFFF42, low byte 'B'

\* values the guest writes, per register index
WriteValues ==
    [reg \in {o \div 4 : o \in Offsets} |->
        CASE reg = LINFLEX_LINCR1 -> {{}, AllOnes33}
          [] reg = LINFLEX_LINIER -> {{}, Bits(1), Bits(4), AllOnes33}
          [] reg = LINFLEX_UARTCR -> {{}, Bits(1), AllOnes33}
          [] reg = LINFLEX_UARTSR -> {{}, Bits(2), Bits(4), Bits(516), AllOnes33}
          [] reg = LINFLEX_BDRL -> {CharA}
          [] OTHER -> {AllOnes33}]

\* bytes the backend delivers
RxBytes == {Bits(65), Bits(66)}

\* register files a snapshot can hold
Snapshots ==
    LET base == fsl_linflex_reset_hold(ResetValues)
    IN  {[base EXCEPT ![LINFLEX_LINIER] = LINIER_DRIE,
                      ![LINFLEX_UARTSR] = UARTSR_DRFRFE \cup UARTSR_RMB],
         [base EXCEPT ![LINFLEX_LINIER] = LINIER_DTIE,
                      ![LINFLEX_UARTSR] = UARTSR_DRFRFE \cup UARTSR_RMB]}

----------------------------------------------------------------------------
(* The state machine.  lastOp keeps the entry point that ran last (op),    *)
(* the case of its switch (path), what it returned (ret), its calls to     *)
(* qemu_chr_fe_accept_input (accepts) and qemu_chr_fe_write_all (sent),    *)
(* and the line level it started from (irq0).                              *)

Op(op, path, ret, accepts, sent) ==
    [op |-> op, path |-> path, ret |-> ret,
     accepts |-> accepts, sent |-> sent, irq0 |-> irq]

\* no byte has been delivered since the device was created or last reset
NoDelivery ==
    [delivered |-> FALSE, byte |-> {}, acked |-> {}, overwrote |-> FALSE]

\* after instance_init: zeroed object, line low, not yet reset
Init ==
    /\ regs = [i \in RegIndex |-> {}]
    /\ irq = 0
    /\ phase = "constructed"
    /\ lastOp = [op |-> "init", path |-> "", ret |-> {},
                 accepts |-> <<>>, sent |-> <<>>, irq0 |-> 0]
    /\ txlog = <<>>
    /\ rxHist = NoDelivery
    /\ bdrlLog = <<>>

ResetEnter ==
    /\ phase \in {"constructed", "run"}
    /\ regs' = fsl_linflex_reset_init(regs)
    /\ phase' = "enter"
    /\ lastOp' = Op("reset_enter", "", {}, <<>>, <<>>)
    /\ UNCHANGED irq

ResetHold ==
    /\ phase = "enter"
    /\ regs' = fsl_linflex_reset_hold(regs)
    /\ phase' = "hold"
    /\ lastOp' = Op("reset_hold", "", {}, <<>>, <<>>)
    /\ UNCHANGED irq

ResetExit ==
    /\ phase = "hold"
    /\ LET x == fsl_linflex_reset_exit(regs, irq)
       IN  /\ irq' = x.irq
           /\ lastOp' = Op("reset_exit", "", {}, x.accepts, <<>>)
    /\ phase' = "run"
    /\ UNCHANGED regs

\* a guest store
Write(offset, value) ==
    /\ phase = "run"
    /\ LET w == fsl_linflex_write(regs, irq, offset, value)
       IN  /\ regs' = w.regs
           /\ irq' = w.irq
           /\ lastOp' = Op("write", w.path, {}, w.accepts, w.sent)
    /\ UNCHANGED phase

\* a guest load
Read(offset) ==
    /\ phase = "run"
    /\ LET x == fsl_linflex_read(regs, offset)
       IN  /\ regs' = x.regs
           /\ lastOp' = Op("read", x.path, x.ret, <<>>, <<>>)
    /\ UNCHANGED <<irq, phase>>

\* the backend polls the gate
CanRx ==
    /\ phase = "run"
    /\ lastOp' = Op("can_rx", "",
                    IF fsl_linflex_can_rx(regs) = 1 THEN Bits(1) ELSE {},
                    <<>>, <<>>)
    /\ UNCHANGED <<regs, irq, phase>>

\* the backend delivers a byte, which it does only while the gate is open
Rx(buf) ==
    /\ phase = "run"
    /\ fsl_linflex_can_rx(regs) = 1
    /\ LET x == fsl_linflex_rx(regs, buf)
       IN  /\ regs' = x.regs
           /\ irq' = x.irq
    /\ lastOp' = Op("rx", "", {}, <<>>, <<>>)
    /\ UNCHANGED phase

\* migration restores the register file, then runs post_load
PostLoad(snapshot) ==
    /\ phase = "run"
    /\ regs' = snapshot
    /\ irq' = fsl_linflex_post_load(snapshot)
    /\ lastOp' = Op("post_load", "", {}, <<>>, <<>>)
    /\ UNCHANGED phase

NoLog == UNCHANGED <<txlog, bdrlLog, rxHist>>

ResetPhase == ResetEnter \/ ResetHold \/ ResetExit
Reset == ResetPhase /\ NoLog
GuestWrite == \E offset \in Offsets : \E value \in WriteValues[offset \div 4] :
                  Write(offset, value) /\ NoLog
GuestRead == \E offset \in Offsets : Read(offset) /\ NoLog
Poll == CanRx /\ NoLog
Deliver == \E buf \in RxBytes : Rx(buf) /\ NoLog
Restore == \E snapshot \in Snapshots : PostLoad(snapshot) /\ NoLog

Next ==
    \/ Reset
    \/ GuestWrite
    \/ GuestRead
    \/ Poll
    \/ Deliver
    \/ Restore

Spec == Init /\ [][Next]_vars

----------------------------------------------------------------------------
(* The same device with the transmit history recorded: txlog and bdrlLog   *)
(* grow with every step, so the guest is given fewer registers to touch    *)
(* and at most MaxTx stores to BDRL.                                       *)

TxOffsets == {4 * LINFLEX_LINCR1, 4 * LINFLEX_LINIER, 4 * LINFLEX_UARTCR,
              4 * LINFLEX_UARTSR, 4 * LINFLEX_BDRL, 4 * LINFLEX_BDRM, 84}
TxValues ==
    [reg \in {o \div 4 : o \in TxOffsets} |->
        CASE reg = LINFLEX_LINCR1 -> {AllOnes33}
          [] reg = LINFLEX_LINIER -> {{}, Bits(1)}
          [] reg = LINFLEX_UARTCR -> {Bits(1)}
          [] reg = LINFLEX_UARTSR -> {Bits(2), Bits(516)}
          [] reg = LINFLEX_BDRL -> {WordA, WordB}
          [] OTHER -> {AllOnes33}]

\* every byte the step handed to the backend is appended to txlog
LogSent == txlog' = txlog \o lastOp'.sent

TxWrite == \E offset \in TxOffsets : \E value \in TxValues[offset \div 4] :
               /\ (offset \div 4 = LINFLEX_BDRL) => Len(bdrlLog) < MaxTx
               /\ Write(offset, value)
               /\ LogSent
               /\ bdrlLog' = IF offset \div 4 = LINFLEX_BDRL
                             THEN Append(bdrlLog, value)
                             ELSE bdrlLog
               /\ UNCHANGED rxHist
TxRead == \E offset \in TxOffsets : Read(offset) /\ LogSent /\ UNCHANGED <<bdrlLog, rxHist>>
TxPoll == CanRx /\ LogSent /\ UNCHANGED <<bdrlLog, rxHist>>
TxDeliver == \E buf \in RxBytes : Rx(buf) /\ LogSent /\ UNCHANGED <<bdrlLog, rxHist>>
TxRestore == \E snapshot \in Snapshots :
                 PostLoad(snapshot) /\ LogSent /\ UNCHANGED <<bdrlLog, rxHist>>
TxReset == ResetPhase /\ LogSent /\ UNCHANGED <<bdrlLog, rxHist>>

NextTx ==
    \/ TxReset
    \/ TxWrite
    \/ TxRead
    \/ TxPoll
    \/ TxDeliver
    \/ TxRestore

SpecTx == Init /\ [][NextTx]_vars

----------------------------------------------------------------------------
(* The same device with the receive history recorded and no snapshot       *)
(* load: rxHist holds the byte of the last delivery since the last reset,  *)
(* the receive flags the guest has written 1 to since that delivery, and   *)
(* whether that delivery came over an earlier one.  The guest is given    *)
(* the registers the receive path reads or writes and one of each other   *)
(* kind.                                                                   *)

RxOffsets == {4 * LINFLEX_LINCR1, 4 * LINFLEX_LINIER, 4 * LINFLEX_LINSR,
              4 * LINFLEX_UARTSR, 4 * LINFLEX_BDRL, 4 * LINFLEX_BDRM, 84}
RxValues ==
    [reg \in {o \div 4 : o \in RxOffsets} |->
        CASE reg = LINFLEX_LINCR1 -> {AllOnes33}
          [] reg = LINFLEX_LINIER -> {{}, Bits(1), Bits(4), AllOnes33}
          [] reg = LINFLEX_UARTSR ->
                 {{}, Bits(2), Bits(4), Bits(512), Bits(516), AllOnes33}
          [] reg = LINFLEX_BDRL -> {CharA}
          [] OTHER -> {AllOnes33}]

RxWrite == \E offset \in RxOffsets : \E value \in RxValues[offset \div 4] :
               /\ Write(offset, value)
               /\ rxHist' = IF rxHist.delivered /\ offset \div 4 = LINFLEX_UARTSR
                            THEN [rxHist EXCEPT !.acked =
                                      @ \cup (value \cap (UARTSR_DRFRFE
                                                          \cup UARTSR_RMB))]
                            ELSE rxHist
               /\ UNCHANGED <<txlog, bdrlLog>>
RxRead == \E offset \in RxOffsets : Read(offset) /\ NoLog
RxPoll == CanRx /\ NoLog
RxDeliver == \E buf \in RxBytes :
                 /\ Rx(buf)
                 /\ rxHist' = [delivered |-> TRUE, byte |-> buf, acked |-> {},
                               overwrote |-> rxHist.delivered]
                 /\ UNCHANGED <<txlog, bdrlLog>>
RxReset == ResetPhase /\ rxHist' = NoDelivery /\ UNCHANGED <<txlog, bdrlLog>>

NextRx ==
    \/ RxReset
    \/ RxWrite
    \/ RxRead
    \/ RxPoll
    \/ RxDeliver

SpecRx == Init /\ [][NextRx]_vars

----------------------------------------------------------------------------
(* Properties.                                                             *)

Running == phase = "run" /\ lastOp.op # "init"

\* the step is a guest store decoded to this case of the switch
Stored(path) == lastOp'.op = "write" /\ lastOp'.path = path

UARTSR_RX == UARTSR_DRFRFE \cup UARTSR_RMB

\* C1: after every completed guest write, byte delivery, reset exit and
\* post-load the interrupt line is 1 exactly when (receive-complete enable
\* and receive-buffer-full) or (transmit-complete enable and
\* transmit-buffer-empty), and 0 otherwise.
C1_IrqIsFunctionOfRegs ==
    lastOp.op \in {"write", "rx", "reset_exit", "post_load"} =>
        (irq = 1 <=>
            \/ /\ LINIER_DRIE \subseteq regs[LINFLEX_LINIER]
               /\ UARTSR_DRFRFE \subseteq regs[LINFLEX_UARTSR]
            \/ /\ LINIER_DTIE \subseteq regs[LINFLEX_LINIER]
               /\ UARTSR_DTFTFF \subseteq regs[LINFLEX_UARTSR])
        /\ irq \in {0, 1}

\* a restore that has to lower the line: transmit enabled with only the
\* receive flags set, coming from an asserted line
C1_Witness ==
    /\ lastOp.op = "post_load"
    /\ lastOp.irq0 = 1
    /\ irq = 0
    /\ LINIER_DTIE \subseteq regs[LINFLEX_LINIER]
    /\ UARTSR_DRFRFE \subseteq regs[LINFLEX_UARTSR]

\* C2: a write to UART-Status calls accept-input exactly when some bit of
\* receive-buffer-full / receive-message-pending is set both in the current
\* register and in the written value (once, and otherwise not at all).
C2_ResumeIffClearingSetFlag ==
    [][Stored("UARTSR") =>
       \A v \in WriteValues[LINFLEX_UARTSR] :
          Write(4 * LINFLEX_UARTSR, v) =>
              Len(lastOp'.accepts) =
                  (IF (regs[LINFLEX_UARTSR] \cap v \cap UARTSR_RX) # {}
                   THEN 1 ELSE 0)]_vars

\* C3: a write of v to UART-Status leaves old AND NOT (v AND 0xFFFF) in the
\* register, whether or not accept-input was called, and the same write
\* repeated at once changes nothing.
C3_WriteOneToClear ==
    /\ [][Stored("UARTSR") =>
          \A v \in WriteValues[LINFLEX_UARTSR] :
             Write(4 * LINFLEX_UARTSR, v) =>
                 regs'[LINFLEX_UARTSR] =
                     regs[LINFLEX_UARTSR] \ (v \cap (0..15))]_vars
    /\ [](Running =>
             \A v \in WriteValues[LINFLEX_UARTSR] :
                 LET once == fsl_linflex_write(regs, irq, 4 * LINFLEX_UARTSR, v)
                     twice == fsl_linflex_write(once.regs, once.irq,
                                                4 * LINFLEX_UARTSR, v)
                 IN  twice.regs = once.regs)

\* accept-input was called by a write that cleared the transmit flag only:
\* both receive flags are still set
C3_Witness ==
    /\ lastOp.op = "write"
    /\ lastOp.path = "UARTSR"
    /\ Len(lastOp.accepts) = 1
    /\ regs[LINFLEX_UARTSR] = UARTSR_RX

\* C4: the can-receive query answers false when receive-buffer-full or
\* receive-message-pending is set and true when both are clear, and it
\* changes neither a register nor the line.
C4_GateClosedWhileFlagSet ==
    /\ [](lastOp.op = "can_rx" =>
             (lastOp.ret = {} <=>
                 \/ UARTSR_DRFRFE \subseteq regs[LINFLEX_UARTSR]
                 \/ UARTSR_RMB \subseteq regs[LINFLEX_UARTSR])
             /\ lastOp.ret \in {{}, Bits(1)})
    /\ [][lastOp'.op = "can_rx" => regs' = regs /\ irq' = irq]_vars

\* the gate is polled with receive-message-pending set alone
C4_Witness ==
    /\ lastOp.op = "can_rx"
    /\ lastOp.ret = {}
    /\ regs[LINFLEX_UARTSR] \cap UARTSR_RX = UARTSR_RMB

\* C5: a write of v to Control-1 stores v AND 0x0001DF27; with the INIT bit
\* set in the stored value the INIT-state flag of LIN status is set; and no
\* write to Control-1 clears that flag.
C5_Claimed_Mask == Bits(122663)
C5_Control1Write ==
    [][Stored("LINCR1") =>
       \A v \in WriteValues[LINFLEX_LINCR1] :
          Write(4 * LINFLEX_LINCR1, v) =>
              /\ regs'[LINFLEX_LINCR1] = v \cap C5_Claimed_Mask
              /\ (LINCR1_INIT \subseteq regs'[LINFLEX_LINCR1] =>
                      LINSR_LINS_INIT \subseteq regs'[LINFLEX_LINSR])
              /\ (LINSR_LINS_INIT \subseteq regs[LINFLEX_LINSR] =>
                      LINSR_LINS_INIT \subseteq regs'[LINFLEX_LINSR])]_vars

\* a write has cleared the INIT bit and the INIT-state flag is still set
C5_Witness ==
    /\ lastOp.op = "write"
    /\ lastOp.path = "LINCR1"
    /\ regs[LINFLEX_LINCR1] = {}
    /\ LINSR_LINS_INIT \subseteq regs[LINFLEX_LINSR]

\* C6: a read of Control-1 returns a value with bit 7 set and leaves bit 7
\* set in the stored register, also when the last write stored bit 7 clear.
C6_Control1ReadBit7 ==
    (lastOp.op = "read" /\ lastOp.path = "LINCR1") =>
        /\ 7 \in lastOp.ret
        /\ 7 \in regs[LINFLEX_LINCR1]
        /\ lastOp.ret = regs[LINFLEX_LINCR1]

\* Control-1 was written to 0 and then read: it now holds 0x80
C6_Witness ==
    /\ lastOp.op = "read"
    /\ lastOp.path = "LINCR1"
    /\ lastOp.ret = Bits(128)
    /\ regs[LINFLEX_LINCR1] = Bits(128)

\* C7: at an offset of the window whose index is outside the register
\* enumeration a write changes no register and sends neither a byte nor an
\* accept-input, a read returns 0 and changes no register, and the device
\* keeps running.
C7_InvalidOffsetInert ==
    [][lastOp'.path = "default" =>
       \A offset \in InvalidOffsets :
          /\ \A v \in WriteValues[offset \div 4] :
                 Write(offset, v) =>
                     /\ regs' = regs
                     /\ lastOp'.sent = <<>>
                     /\ lastOp'.accepts = <<>>
                     /\ phase' = "run"
          /\ Read(offset) =>
                 /\ lastOp'.ret = {}
                 /\ regs' = regs
                 /\ phase' = "run"]_vars

\* a read past the enumeration returned 0 while register 0 holds a value
C7_Witness ==
    /\ lastOp.op = "read"
    /\ lastOp.path = "default"
    /\ lastOp.ret = {}
    /\ regs[LINFLEX_LINCR1] # {}
    /\ regs[LINFLEX_UARTSR] # {}

\* C8: after reset exit every register holds its documented power-on value
\* except UART-Status, which holds exactly transmit-buffer-empty; the line
\* is low; and accept-input was called exactly once, after the line was
\* recomputed.
C8_PowerOn ==
    [i \in RegIndex |->
        CASE i = 0 -> Bits(130)         \* Control-1 0x82
          [] i = 2 -> Bits(64)          \* LIN Status 0x40
          [] i = 5 -> UARTSR_DTFTFF     \* UART-Status: transmit-buffer-empty
          [] i = 6 -> Bits(512)         \* Timeout/Control-Status 0x200
          [] i = 7 -> Bits(65535)       \* Output-Compare 0xFFFF
          [] i = 8 -> Bits(3628)        \* Timeout-Control 0xE2C
          [] i = 12 -> Bits(24576)      \* Control-2 0x6000
          [] i = 17 -> Bits(4095)       \* UART Preset Timeout 0xFFF
          [] OTHER -> {}]
C8_ResetResult ==
    lastOp.op = "reset_exit" =>
        /\ regs = C8_PowerOn
        /\ irq = 0
        /\ Len(lastOp.accepts) = 1
        /\ lastOp.accepts[1].irq = 0
        /\ lastOp.sent = <<>>

\* a reset that started with the line asserted has completed
C8_Witness ==
    /\ lastOp.op = "reset_exit"
    /\ lastOp.irq0 = 1
    /\ irq = 0

\* the low bytes of a sequence of written values
RECURSIVE LowBytes(_)
LowBytes(q) == IF q = <<>> THEN <<>>
               ELSE <<Head(q) \cap (0..7)>> \o LowBytes(Tail(q))

\* C9: every write to the Transmit Data Buffer (low), in any controller
\* state, stores the 32-bit value, hands exactly the low byte to the
\* backend and sets transmit-buffer-empty; the bytes handed to the backend
\* are, in order, the low bytes of the values written to that register.
C9_TransmitEveryWrite ==
    /\ [](txlog = LowBytes(bdrlLog))
    /\ [][Stored("BDRL") =>
          \A v \in TxValues[LINFLEX_BDRL] :
             Write(4 * LINFLEX_BDRL, v) =>
                 /\ regs'[LINFLEX_BDRL] = v \cap (0..31)
                 /\ lastOp'.sent = <<v \cap (0..7)>>
                 /\ UARTSR_DTFTFF \subseteq regs'[LINFLEX_UARTSR]]_vars

\* 'A' then 'B' were written with the INIT bit set and UART mode off
C9_Witness ==
    /\ txlog = <<Bits(65), Bits(66)>>
    /\ bdrlLog = <<WordA, WordB>>
    /\ lastOp.path = "BDRL"
    /\ LINCR1_INIT \subseteq regs[LINFLEX_LINCR1]
    /\ regs[LINFLEX_UARTCR] = {}

\* C10: reset enter sets Control-1 to 0x82 and reset exit leaves the line
\* low; writing Interrupt-Enable = 0x1 after the reset enables the
\* transmit-complete interrupt; writing 'A' to the Transmit Data Buffer
\* (low) then leaves transmit-buffer-empty set and the line asserted.
C10_AfterReset == [C8_PowerOn EXCEPT ![LINFLEX_LINIER] = Bits(1)]
C10_ResetThenTransmit ==
    /\ [](lastOp.op = "reset_enter" => regs[LINFLEX_LINCR1] = Bits(130))
    /\ [](lastOp.op = "reset_exit" => irq = 0 /\ regs[LINFLEX_LINIER] = {})
    /\ [][(lastOp.op = "reset_exit" /\ Write(4 * LINFLEX_LINIER, Bits(1))) =>
              /\ regs' = C10_AfterReset
              /\ LINIER_DTIE \subseteq regs'[LINFLEX_LINIER]]_vars
    /\ [][(regs = C10_AfterReset /\ Write(4 * LINFLEX_BDRL, CharA)) =>
              /\ UARTSR_DTFTFF \subseteq regs'[LINFLEX_UARTSR]
              /\ irq' = 1]_vars

\* the scenario has run to its end
C10_Witness ==
    /\ regs = [C10_AfterReset EXCEPT ![LINFLEX_BDRL] = CharA]
    /\ lastOp.op = "write"
    /\ lastOp.path = "BDRL"
    /\ lastOp.sent = <<CharA>>
    /\ irq = 1

-----------------------------------------------------------------------------
\* the transmit path asserts the line in register file r
TxAsserts(r) ==
    /\ LINIER_DTIE \subseteq r[LINFLEX_LINIER]
    /\ UARTSR_DTFTFF \subseteq r[LINFLEX_UARTSR]

\* C11: a delivery of byte b (possible only while the gate is true) puts b in
\* the low byte of the receive data buffer, sets DRFRFE and RMB and recomputes
\* the line, which is asserted when receive-complete is enabled; a UART-Status
\* write whose mask covers both flags then deasserts the line unless the
\* transmit path asserts it.
C11_DeliverThenAcknowledge ==
    /\ [][lastOp'.op = "rx" =>
          \A b \in RxBytes :
             Rx(b) =>
                 /\ fsl_linflex_can_rx(regs) = 1
                 /\ regs'[LINFLEX_BDRM] \cap BDRM_BYTE = b
                 /\ UARTSR_RX \subseteq regs'[LINFLEX_UARTSR]
                 /\ \A i \in 0..(LINFLEX_REGS_MAX - 1) :
                       i \notin {LINFLEX_BDRM, LINFLEX_UARTSR} =>
                           regs'[i] = regs[i]
                 /\ (LINIER_DRIE \subseteq regs[LINFLEX_LINIER] => irq' = 1)
                 /\ (irq' = 1) = (LINIER_DRIE \subseteq regs[LINFLEX_LINIER]
                                  \/ TxAsserts(regs))]_vars
    /\ [][(Stored("UARTSR") /\ UARTSR_RX \subseteq regs[LINFLEX_UARTSR]) =>
          \A v \in WriteValues[LINFLEX_UARTSR] :
             (Write(4 * LINFLEX_UARTSR, v) /\ UARTSR_RX \subseteq v
                /\ ~TxAsserts(regs)) => irq' = 0]_vars

\* the line raised by a delivery has been dropped by the acknowledging write
C11_Witness ==
    /\ lastOp.op = "write"
    /\ lastOp.path = "UARTSR"
    /\ lastOp.irq0 = 1
    /\ irq = 0
    /\ LINIER_DRIE \subseteq regs[LINFLEX_LINIER]
    /\ regs[LINFLEX_BDRM] \in RxBytes
    /\ regs[LINFLEX_UARTSR] \cap UARTSR_RX = {}

-----------------------------------------------------------------------------
\* the UART-Control value the claim gives for a write of v over old, with
\* initialization mode requested (init) or not
C12_Claimed_Result(old, init, v) ==
    LET v32 == v \cap (0..31)
        first == old \cup (v32 \cap UARTCR_UART)
    IN  IF init
        THEN IF UARTCR_UART \subseteq first THEN first \cup v32 ELSE first
        ELSE IF UARTCR_UART \subseteq old
             THEN old \cup (v32 \cap Bits(7404592))
             ELSE old

\* C12: a UART-Control write of v stores old | (v & UART), further | v when the
\* UART bit is then set, if the INIT bit of Control-1 is set; old |
\* (v & 0x0070FC30) if INIT is clear and the UART bit already set; nothing
\* otherwise.  The INIT state flag of LINSR plays no part.
C12_UartControlWrite ==
    [][Stored("UARTCR") =>
       \A v \in WriteValues[LINFLEX_UARTCR] :
          Write(4 * LINFLEX_UARTCR, v) =>
              /\ regs'[LINFLEX_UARTCR] =
                     C12_Claimed_Result(regs[LINFLEX_UARTCR],
                                        LINCR1_INIT \subseteq regs[LINFLEX_LINCR1],
                                        v)
              /\ \A i \in RegIndex \ {LINFLEX_UARTCR} : regs'[i] = regs[i]]_vars

\* a UART-Control write was ignored although LINSR still shows the INIT state:
\* the INIT bit of Control-1 had been cleared and UART mode never selected
C12_Witness ==
    /\ lastOp.op = "write"
    /\ lastOp.path = "UARTCR"
    /\ LINSR_LINS_INIT \subseteq regs[LINFLEX_LINSR]
    /\ regs[LINFLEX_LINCR1] \cap LINCR1_INIT = {}
    /\ regs[LINFLEX_UARTCR] = {}

-----------------------------------------------------------------------------
\* what a read of register reg returns from register file r
ReadBack(r, reg) ==
    IF reg = LINFLEX_BDRM THEN r[reg] \cap BDRM_BYTE ELSE r[reg]

\* C13: a write to a recognized but unimplemented register stores the written
\* value verbatim (so that a following read returns it).
C13_UnimplementedStoresWritten ==
    [][Stored("unimplemented") =>
       \A reg \in UnimplementedWrite :
          \A v \in WriteValues[reg] :
             Write(4 * reg, v) => regs'[reg] = v \cap (0..31)]_vars

\* C13, as the code has it: a write to a recognized but unimplemented register
\* stores nothing, the register keeps the value it had, and a read that
\* follows the write returns that earlier value (its low byte for the
\* receive data buffer).
C13_UnimplementedKeepsValue ==
    /\ [][Stored("unimplemented") =>
          \A reg \in UnimplementedWrite : regs'[reg] = regs[reg]]_vars
    /\ [][(lastOp.op = "write" /\ lastOp.path = "unimplemented"
             /\ lastOp'.op = "read") =>
          \A reg \in UnimplementedWrite :
             Read(4 * reg) =>
                 /\ lastOp'.ret = ReadBack(regs, reg)
                 /\ regs'[reg] = regs[reg]]_vars

\* all ones were written to an unimplemented register and every one of them
\* still holds what the reset (or, for the receive buffer, a delivery) left
C13_Witness ==
    /\ lastOp.op = "write"
    /\ lastOp.path = "unimplemented"
    /\ regs[LINFLEX_BDRM] \in RxBytes
    /\ \A reg \in UnimplementedWrite \ {LINFLEX_BDRM} :
          regs[reg] = ResetValues[reg]

-----------------------------------------------------------------------------
\* the step is anything but the enter phase of a reset or a snapshot load
BetweenResets == lastOp'.op \notin {"reset_enter", "post_load", "init"}

\* C14: between two resets no guest write, read or delivery clears a bit of
\* UART-Control; the register changes only by a UART-Control write made while
\* the INIT bit of Control-1 is set or the UART bit already is; the UART bit
\* goes from 0 to 1 only by a UART-Control write made while INIT is set.
C14_UartControlMonotone ==
    /\ [][BetweenResets =>
          regs[LINFLEX_UARTCR] \subseteq regs'[LINFLEX_UARTCR]]_vars
    /\ [][(BetweenResets /\ regs'[LINFLEX_UARTCR] # regs[LINFLEX_UARTCR]) =>
          /\ Stored("UARTCR")
          /\ \/ LINCR1_INIT \subseteq regs[LINFLEX_LINCR1]
             \/ UARTCR_UART \subseteq regs[LINFLEX_UARTCR]]_vars
    /\ [][(BetweenResets /\ regs[LINFLEX_UARTCR] \cap UARTCR_UART = {}
             /\ UARTCR_UART \subseteq regs'[LINFLEX_UARTCR]) =>
          /\ Stored("UARTCR")
          /\ LINCR1_INIT \subseteq regs[LINFLEX_LINCR1]]_vars

\* UART mode was selected in initialization mode, and a later write outside
\* it has added the bits writable there
C14_Witness ==
    /\ lastOp.op = "write"
    /\ lastOp.path = "UARTCR"
    /\ regs[LINFLEX_LINCR1] \cap LINCR1_INIT = {}
    /\ regs[LINFLEX_UARTCR] = UARTCR_UART \cup UARTCR_POSTINIT

-----------------------------------------------------------------------------
\* C15: a guest read leaves the interrupt line alone, sends no byte and no
\* resume notification, and changes no register except that a Control-1 read
\* sets bit 7 of it; a read of the receive data buffer returns its low byte,
\* leaves DRFRFE and RMB as they were and does not open the acceptance gate.
C15_ReadsAreInert ==
    [][lastOp'.op = "read" =>
       /\ irq' = irq
       /\ lastOp'.sent = <<>>
       /\ lastOp'.accepts = <<>>
       /\ regs' = [regs EXCEPT ![LINFLEX_LINCR1] =
                       IF lastOp'.path = "LINCR1" THEN @ \cup {7} ELSE @]
       /\ (Read(4 * LINFLEX_LINCR1) <=> lastOp'.path = "LINCR1")
       /\ (Read(4 * LINFLEX_BDRM) <=> lastOp'.path = "BDRM")
       /\ (lastOp'.path = "BDRM" =>
              /\ lastOp'.ret = regs[LINFLEX_BDRM] \cap (0..7)
              /\ regs'[LINFLEX_UARTSR] \cap UARTSR_RX
                     = regs[LINFLEX_UARTSR] \cap UARTSR_RX
              /\ fsl_linflex_can_rx(regs') = fsl_linflex_can_rx(regs))]_vars

\* the receive data buffer was read while it held an unacknowledged byte, and
\* the gate is still closed
C15_Witness ==
    /\ lastOp.op = "read"
    /\ lastOp.path = "BDRM"
    /\ lastOp.ret = CharA
    /\ UARTSR_RX \subseteq regs[LINFLEX_UARTSR]
    /\ fsl_linflex_can_rx(regs) = 0

-----------------------------------------------------------------------------
\* the registers whose write case stores something
StoringRegisters ==
    {LINFLEX_LINCR1, LINFLEX_LINIER, LINFLEX_UARTCR, LINFLEX_UARTSR,
     LINFLEX_BDRL}

\* C16: a guest write to any register other than Control-1, Interrupt-Enable,
\* UART-Control, UART-Status and Transmit Data Buffer (low) leaves the whole
\* register file unchanged (LINSR and the receive data buffer included),
\* sends nothing to the transport and leaves the interrupt line as it was.
C16_OtherWritesInert ==
    /\ [](Running =>
            \A reg \in RegIndex \ StoringRegisters :
               \A v \in WriteValues[reg] :
                  LET w == fsl_linflex_write(regs, irq, 4 * reg, v)
                  IN  /\ w.regs = regs
                      /\ w.sent = <<>>
                      /\ w.accepts = <<>>
                      /\ w.irq = irq)
    /\ [][(lastOp'.op = "write"
             /\ lastOp'.path \notin {"LINCR1", "LINIER", "UARTCR", "UARTSR", "BDRL"})
          => /\ regs' = regs
             /\ lastOp'.sent = <<>>
             /\ lastOp'.accepts = <<>>
             /\ irq' = irq]_vars

\* such a write was made with the line asserted, a byte pending and the INIT
\* state flag set, and all three are as they were
C16_Witness ==
    /\ lastOp.op = "write"
    /\ lastOp.path = "unimplemented"
    /\ lastOp.irq0 = 1
    /\ irq = 1
    /\ regs[LINFLEX_BDRM] = CharA
    /\ UARTSR_RX \subseteq regs[LINFLEX_UARTSR]
    /\ regs[LINFLEX_LINSR] = ResetValues[LINFLEX_LINSR] \cup LINSR_LINS_INIT

-----------------------------------------------------------------------------
\* C17: every UART-Status write that takes the acceptance gate from false to
\* true sends a resume notification at a point where the transport, polling
\* the gate again, finds it true (so that a transport which delivers a
\* buffered byte only when notified with the gate true does deliver it).
C17_GateOpeningWriteResumes ==
    [][(Stored("UARTSR")
          /\ fsl_linflex_can_rx(regs) = 0
          /\ fsl_linflex_can_rx(regs') = 1)
       => \E i \in 1..Len(lastOp'.accepts) : lastOp'.accepts[i].gate = 1]_vars

-----------------------------------------------------------------------------
-----------------------------------------------------------------------------
\* C19: with no snapshot load, UART-Status never holds a bit other than
\* DTFTFF, DRFRFE and RMB; a guest write to it only clears bits of it; and
\* DRFRFE and RMB become set by a delivery only.
C19_StatusBits ==
    /\ [](regs[LINFLEX_UARTSR] \subseteq
              (UARTSR_DTFTFF \cup UARTSR_DRFRFE \cup UARTSR_RMB))
    /\ [][Stored("UARTSR") =>
          regs'[LINFLEX_UARTSR] \subseteq regs[LINFLEX_UARTSR]]_vars
    /\ [][((regs'[LINFLEX_UARTSR] \ regs[LINFLEX_UARTSR]) \cap UARTSR_RX # {})
          => lastOp'.op = "rx"]_vars

\* after a delivery the guest has written ones over every flag that was set
\* and the register is empty
C19_Witness ==
    /\ lastOp.op = "write"
    /\ lastOp.path = "UARTSR"
    /\ rxHist.delivered
    /\ rxHist.acked = UARTSR_RX
    /\ regs[LINFLEX_UARTSR] = {}

-----------------------------------------------------------------------------
\* the step is a guest access or a backend callback
DeviceStep == lastOp'.op \in {"write", "read", "can_rx", "rx"}

\* C20: the reset leaves DTFTFF set, and it stays set until the guest writes
\* UART-Status; so the write to Interrupt-Enable that sets DTIE asserts the
\* line at once, with no byte written to the transmit data buffer.  The line
\* then goes low only by a UART-Status write that clears DTFTFF or an
\* Interrupt-Enable write that clears DTIE, and a write to the transmit data
\* buffer sets the flag, and with DTIE enabled the line, again.
C20_TransmitInterruptAfterReset ==
    /\ [](lastOp.op \in {"reset_hold", "reset_exit"} =>
             /\ UARTSR_DTFTFF \subseteq regs[LINFLEX_UARTSR]
             /\ regs[LINFLEX_BDRL] = {}
             /\ (lastOp.op = "reset_exit" => irq = 0))
    /\ [][(DeviceStep /\ UARTSR_DTFTFF \subseteq regs[LINFLEX_UARTSR]
             /\ ~Stored("UARTSR")) =>
          UARTSR_DTFTFF \subseteq regs'[LINFLEX_UARTSR]]_vars
    /\ [][(Stored("LINIER") /\ UARTSR_DTFTFF \subseteq regs[LINFLEX_UARTSR]
             /\ LINIER_DTIE \subseteq regs'[LINFLEX_LINIER]) =>
          irq' = 1]_vars
    /\ [][(DeviceStep /\ TxAsserts(regs) /\ irq' = 0) =>
          \/ Stored("UARTSR")
               /\ regs'[LINFLEX_UARTSR] \cap UARTSR_DTFTFF = {}
          \/ Stored("LINIER")
               /\ regs'[LINFLEX_LINIER] \cap LINIER_DTIE = {}]_vars
    /\ [][Stored("BDRL") =>
          /\ UARTSR_DTFTFF \subseteq regs'[LINFLEX_UARTSR]
          /\ (LINIER_DTIE \subseteq regs[LINFLEX_LINIER] => irq' = 1)]_vars

\* the first write after the reset enabled the transmit interrupt: the line
\* went up although the transmit data buffer was never written
C20_Witness ==
    /\ lastOp.op = "write"
    /\ lastOp.path = "LINIER"
    /\ lastOp.irq0 = 0
    /\ irq = 1
    /\ regs = [C8_PowerOn EXCEPT ![LINFLEX_LINIER] = LINIER_DTIE]
    /\ regs[LINFLEX_BDRL] = {}

====
